---- MODULE Spec2Model ----
(***************************************************************************)
(* Model of the survey backend: the survey schema and its validators       *)
(* (backend/app/models/survey.py) and the survey route handlers            *)
(* create_survey, list_surveys, SurveyController.submit_survey and         *)
(* SurveyController.public_survey (backend/app/controllers/survey.py).     *)
(*                                                                         *)
(* Documents and pydantic models are functions from field names to values. *)
(* Parsing a document into a pydantic model keeps the fields the model     *)
(* declares and drops every other key.                                     *)
(***************************************************************************)
EXTENDS Integers, Sequences, FiniteSets, Bags, TLC

VARIABLES
    survey,          \* state.mongo.survey: the set of stored survey documents
    next_id,         \* the next ObjectId the driver generates on insert_one
    now,             \* the wall clock read by datetime.utcnow() and by the cache
    cache,           \* the response cache of the route declared with cache=120
    resp,            \* the response of the handler that ran last
    data,            \* the request body handed to SurveyCreateModel
    captcha_policy,  \* requires_captcha of each survey as Survey.get() reports it
    answers,         \* the stored answer sets: a bag of (survey_id, user_id)
    reqs,            \* the submit_survey requests in flight, one per connection
    created_by       \* history: the caller of the create_survey that generated each id

vars == <<survey, next_id, now, cache, resp, data, captcha_policy, answers, reqs, created_by>>

----------------------------------------------------------------------------
(* Bounds of the model *)

MaxQuestionId == 1  \* question ids are drawn from 0..MaxQuestionId
MaxChoiceId == 0    \* choice ids are drawn from 0..MaxChoiceId
MaxQuestions == 2   \* longest question list of a payload
MaxChoices == 2     \* longest choice list of a question
MaxSurveys == 2     \* surveys created in one behaviour
MaxTime == 120      \* the clock stops advancing here
ClockStep == 60     \* seconds between two observations of the clock
NReq == 2           \* connections submitting concurrently

(* Program constants *)

CacheSeconds == 120

----------------------------------------------------------------------------
(* Values *)

Users == {"U1", "U2"}
NoUser == "none"                      \* request.user of an unauthenticated caller
Callers == Users \cup {NoUser}

Restrict(f, S) == [k \in (S \cap DOMAIN f) |-> f[k]]

Range(s) == {s[i] : i \in DOMAIN s}

SeqsUpTo(S, n) == UNION {[1..k -> S] : k \in 0..n}

(* IvField + cipher_text: an opaque envelope *)
Envelope(name) == [iv |-> name \o "_iv", cipher_text |-> name \o "_ct"]

----------------------------------------------------------------------------
(* Schema: backend/app/models/survey.py *)

SurveySignPublicKeyFields == {"public_key"}
SurveySignKeyPairFields == {"public_key", "iv", "cipher_text"}
SurveyPublicKeyFields == {"public_key"}
SurveyKeypairFields == {"public_key", "private_key"}
SurveySecretKeyFields == {"iv", "cipher_text"}

SurveySharedFields ==
    {"title", "questions", "signature", "requires_login", "proxy_block",
     "allow_multiple_submissions", "algorithms"}

SurveyCreateFields == SurveySharedFields \cup {"sign_keypair", "secret_key", "keypair"}

SurveyPublicFields == SurveySharedFields \cup {"created", "_id", "user_id", "sign_keypair", "keypair"}

SurveyFields == SurveyPublicFields \cup SurveyCreateFields

(* SurveyQuestionModel.choices_validator *)
choices_validator(q) ==
    IF (~q.has_choices) \/ q.choices = <<>>
    THEN TRUE
    ELSE LET ids == [i \in DOMAIN q.choices |-> q.choices[i].id]
         IN  Len(ids) = Cardinality(Range(ids))

(* __SurveySharedModel.questions_validator *)
questions_validator_no_check(v) == TRUE

questions_validator(v) ==
    LET ids == [i \in DOMAIN v |-> v[i].id]
    IN  Len(ids) = Cardinality(Range(ids))

(* SurveyCreateModel built from a request body: field validation, then the parsed model.  Every
   question is validated first; questions_validator runs on the validated list. *)
SurveyCreateValid(raw) ==
    /\ \A i \in DOMAIN raw.questions : choices_validator(raw.questions[i])
    /\ questions_validator(raw.questions)

SurveyCreateModel(raw) ==
    [k \in (SurveyCreateFields \cap DOMAIN raw) |->
        CASE k = "sign_keypair" -> Restrict(raw[k], SurveySignKeyPairFields)
          [] k = "secret_key"   -> Restrict(raw[k], SurveySecretKeyFields)
          [] k = "keypair"      -> Restrict(raw[k], SurveyKeypairFields)
          [] OTHER              -> raw[k]]

(* SurveyPublicModel built from a document: sign_keypair is a SurveySignPublicKeyModel and
   keypair a SurveyPublicKeyModel; secret_key is no field of the model. *)
SurveyPublicModel_full(doc) == Restrict(doc, SurveyFields)

SurveyPublicModel(doc) ==
    [k \in (SurveyPublicFields \cap DOMAIN doc) |->
        CASE k = "sign_keypair" -> Restrict(doc[k], SurveySignPublicKeyFields)
          [] k = "keypair"      -> Restrict(doc[k], SurveyPublicKeyFields)
          [] OTHER              -> doc[k]]

(* SurveyModel built from a document: the owner's full representation *)
SurveyModel(doc) ==
    [k \in (SurveyFields \cap DOMAIN doc) |->
        CASE k = "sign_keypair" -> Restrict(doc[k], SurveySignKeyPairFields)
          [] k = "secret_key"   -> Restrict(doc[k], SurveySecretKeyFields)
          [] k = "keypair"      -> Restrict(doc[k], SurveyKeypairFields)
          [] OTHER              -> doc[k]]

----------------------------------------------------------------------------
(* Request bodies *)

QuestionIds == 0..MaxQuestionId
ChoiceIds == 0..MaxChoiceId

Choice(i) == [id |-> i, iv |-> "choice_iv", cipher_text |-> "choice_ct"]

ChoiceLists == SeqsUpTo({Choice(i) : i \in ChoiceIds}, MaxChoices)

Question(i, has, cs) ==
    [id |-> i, has_choices |-> has, choices |-> cs, question |-> Envelope("question")]

Questions ==
    {Question(i, TRUE, cs) : i \in QuestionIds, cs \in ChoiceLists}
        \cup {Question(i, FALSE, <<>>) : i \in QuestionIds}

Payload(qs, login, proxy, multi) ==
    [title |-> Envelope("title"),
     questions |-> qs,
     signature |-> "signature",
     requires_login |-> login,
     proxy_block |-> proxy,
     allow_multiple_submissions |-> multi,
     algorithms |-> "XChaCha20Poly1305+ED25519+X25519_XSalsa20Poly1305+BLAKE2b",
     sign_keypair |-> [public_key |-> "sign_pk", iv |-> "sign_iv", cipher_text |-> "sign_sk_ct"],
     secret_key |-> Envelope("secret"),
     keypair |-> [public_key |-> Envelope("pk"), private_key |-> Envelope("sk")]]

(* a body that also carries keys the model does not declare *)
WithExtra(p, u) == [k \in DOMAIN p \cup {"user_id"} |-> IF k = "user_id" THEN u ELSE p[k]]

(* the bodies the handlers are exercised with in the request-level specifications *)
Q0 == Question(0, TRUE, <<Choice(0), Choice(1)>>)
Q1 == Question(1, TRUE, <<Choice(0)>>)

CreateBodies ==
    LET good == {Payload(<<Q0, Q1>>, login, FALSE, FALSE) : login \in BOOLEAN}
    IN  good \cup {WithExtra(p, "U2") : p \in good} \cup {Payload(<<Q0, Q0>>, FALSE, FALSE, FALSE)}

----------------------------------------------------------------------------
(* Responses *)

NoDoc == [k \in {} |-> FALSE]

Idle == [op |-> "idle", user |-> NoUser, sid |-> "", status |-> "", body |-> NoDoc,
         items |-> {}, cached |-> FALSE]

Response(op, u, sid, status) ==
    [op |-> op, user |-> u, sid |-> sid, status |-> status, body |-> NoDoc,
     items |-> {}, cached |-> FALSE]

NoEntry == [set |-> FALSE, body |-> NoDoc, expires |-> 0]

(* the path parameter survey_id: well-formed ObjectId strings and a malformed one *)
SurveyIdStrings == {"1", "2", "zz"}
InvalidId == 0

(* ObjectId(survey_id): raises InvalidId on a malformed string *)
ObjectId(s) ==
    CASE s = "1" -> 1
      [] s = "2" -> 2
      [] OTHER   -> InvalidId

(* python's {**a, **b}: the keys of b win *)
Merge(a, b) == [k \in DOMAIN a \cup DOMAIN b |-> IF k \in DOMAIN b THEN b[k] ELSE a[k]]

(* find_one({"_id": id}) on the survey collection *)
FindSurvey(id) == {d \in survey : d["_id"] = id}

----------------------------------------------------------------------------
(* create_survey: POST /survey/create, authenticated *)

insert_doc(d, u, t) == Merge(d, [created |-> t, user_id |-> u])

create_survey(u, raw) ==
    /\ Cardinality(survey) < MaxSurveys
    /\ data' = raw
    /\ IF ~SurveyCreateValid(raw)
       THEN /\ resp' = Response("create", u, "", "ValidationError")
            /\ UNCHANGED <<survey, next_id, created_by>>
       ELSE LET insert == insert_doc(SurveyCreateModel(raw), u, now)
                stored == Merge(insert, [_id |-> next_id])
            IN  /\ survey' = survey \cup {stored}
                /\ next_id' = next_id + 1
                /\ created_by' = Append(created_by, u)
                /\ resp' = [Response("create", u, "", "ok") EXCEPT !.body = SurveyModel(stored)]
    /\ UNCHANGED <<now, cache, captcha_policy, answers, reqs>>

(* list_surveys: GET /survey/list, authenticated *)

list_query_all(u) == survey

list_query(u) == {d \in survey : d.user_id = u}

list_surveys(u) ==
    /\ resp' = [Response("list", u, "", "ok") EXCEPT
                    !.items = {SurveyModel(d) : d \in list_query(u)}]
    /\ UNCHANGED <<survey, next_id, now, cache, data, captcha_policy, answers, reqs, created_by>>

----------------------------------------------------------------------------
(* SurveyController.public_survey: GET /survey/{survey_id}/public, cache=120,
   exclude_from_auth=True *)

(* Survey(state, id_).public() *)
Survey_public(id) == SurveyPublicModel(CHOOSE d \in FindSurvey(id) : TRUE)

CacheHit(s) == cache[s].set /\ now < cache[s].expires

public_survey_handler(u, s) ==
    IF ObjectId(s) = InvalidId \/ FindSurvey(ObjectId(s)) = {}
    THEN Response("public", u, s, "SurveyNotFoundException")
    ELSE LET sv == Survey_public(ObjectId(s))
         IN  IF sv.requires_login /\ u = NoUser
             THEN Response("public", u, s, "InvalidAccountAuth")
             ELSE [Response("public", u, s, "ok") EXCEPT !.body = sv]

public_survey(u, s) ==
    /\ IF CacheHit(s)
       THEN /\ resp' = [Response("public", u, s, "ok") EXCEPT
                            !.body = cache[s].body, !.cached = TRUE]
            /\ UNCHANGED cache
       ELSE LET r == public_survey_handler(u, s)
            IN  /\ resp' = r
                /\ cache' = IF r.status = "ok"
                            THEN [cache EXCEPT ![s] = [set |-> TRUE, body |-> r.body,
                                                       expires |-> now + CacheSeconds]]
                            ELSE cache
    /\ UNCHANGED <<survey, next_id, now, data, captcha_policy, answers, reqs, created_by>>

(* time passes *)
Tick ==
    /\ now + ClockStep <= MaxTime
    /\ now' = now + ClockStep
    /\ UNCHANGED <<survey, next_id, cache, resp, data, captcha_policy, answers, reqs, created_by>>

----------------------------------------------------------------------------
(* The service from start-up: an empty survey collection *)

NoReqs == <<>>

Init ==
    /\ survey = {}
    /\ next_id = 1
    /\ now = 0
    /\ cache = [s \in SurveyIdStrings |-> NoEntry]
    /\ resp = Idle
    /\ data = NoDoc
    /\ captcha_policy = [i \in 1..MaxSurveys |-> FALSE]
    /\ answers = EmptyBag
    /\ reqs = NoReqs
    /\ created_by = <<>>

Next ==
    \/ \E u \in Users, raw \in CreateBodies : create_survey(u, raw)
    \/ \E u \in Users : list_surveys(u)
    \/ \E u \in Callers, s \in SurveyIdStrings : public_survey(u, s)
    \/ Tick

Spec == Init /\ [][Next]_vars

----------------------------------------------------------------------------
(* Validation alone, over every request body within the bounds *)

ValidateBody(qs) == Payload(qs, FALSE, FALSE, FALSE)

validate_create ==
    /\ resp.op = "idle"
    /\ resp' = IF SurveyCreateValid(data)
               THEN [Response("validate", NoUser, "", "ok") EXCEPT !.body = SurveyCreateModel(data)]
               ELSE Response("validate", NoUser, "", "ValidationError")
    /\ UNCHANGED <<survey, next_id, now, cache, data, captcha_policy, answers, reqs, created_by>>

InitValidate ==
    /\ survey = {}
    /\ next_id = 1
    /\ now = 0
    /\ cache = [s \in SurveyIdStrings |-> NoEntry]
    /\ resp = Idle
    /\ \E n \in 0..MaxQuestions : \E qs \in [1..n -> Questions] : data = ValidateBody(qs)
    /\ captcha_policy = [i \in 1..MaxSurveys |-> FALSE]
    /\ answers = EmptyBag
    /\ reqs = NoReqs
    /\ created_by = <<>>

NextValidate == validate_create

SpecValidate == InitValidate /\ [][NextValidate]_vars

----------------------------------------------------------------------------
(* SurveyController.submit_survey: POST /survey/{survey_id}/submit,
   exclude_from_auth=True.  The handler is a coroutine: one action per block of
   the handler between two awaits, so requests on different connections
   interleave at the awaits. *)

Requests == 1..NReq

CaptchaTokens == {"missing", "invalid", "valid"}
GeoResults == {"yes", "no", "none"}       \* geoip_lookup["proxy"], or no lookup result

(* A request: its inputs (survey_id, user), the handler's locals (survey,
   user_id), its position pc and its outcome.  captcha and geo record what
   the verifier and the lookup answered; seen and prior record how many
   answer sets of the submitter were stored when the duplicate gate ran
   and when the write ran; wrote records that the write stored one. *)
IdleReq ==
    [pc |-> "idle", survey_id |-> "", user |-> NoUser, survey |-> NoDoc,
     captcha |-> "unchecked", geo |-> "skipped", user_id |-> NoUser,
     seen |-> 0, prior |-> 0, outcome |-> "", wrote |-> FALSE]

Fail(r, err) == [reqs EXCEPT ![r].pc = "done", ![r].outcome = err]

AnswerKey(sid, uid) == [survey_id |-> sid, user_id |-> uid]

Stored(sid, uid) == CopiesIn(AnswerKey(sid, uid), answers)

(* Survey(state, id_).get(): the stored survey with its policy flags *)
Survey_get(id) ==
    LET d == CHOOSE x \in FindSurvey(id) : TRUE
    IN  Merge(SurveyModel(d), [requires_captcha |-> captcha_policy[id]])

(* validate_captcha(state, captcha): the error it raises, "" when the verifier accepts *)
validate_captcha(token) ==
    CASE token = "valid"   -> ""
      [] token = "missing" -> "CaptchaRequiredError"
      [] OTHER             -> "CaptchaInvalidError"

(* lines 65-66 *)
CaptchaGate_skipped(sv, token) == ""

CaptchaGate(sv, token) == IF sv.requires_captcha THEN validate_captcha(token) ELSE ""

(* lines 68-72 *)
SubmitterId_anonymous(u) == NoUser

SubmitterId(u) == IF u # NoUser THEN u ELSE NoUser

AuthGate_skipped(sv, u) == ""

AuthGate(sv, u) == IF u = NoUser /\ sv.requires_login THEN "InvalidAccountAuth" ELSE ""

(* lines 74-75: the body of the duplicate-submission test is pass *)
DuplicateGate(sv, sid, uid) == ""

(* lines 77-80: the lookup runs when the survey blocks proxies and the client
   host is known; the body of the test on its result is pass *)
ProxyLookupRuns(sv, host_known) == sv.proxy_block /\ host_known

ProxyGate(sv, geo) == ""

(* lines 58-61 *)
submit_begin(r, u, s) ==
    /\ reqs[r].pc = "idle"
    /\ LET started == [IdleReq EXCEPT !.survey_id = s, !.user = u]
       IN  reqs' = [reqs EXCEPT ![r] =
                       IF ObjectId(s) = InvalidId
                       THEN [started EXCEPT !.pc = "done", !.outcome = "SurveyNotFoundException"]
                       ELSE [started EXCEPT !.pc = "get"]]
    /\ UNCHANGED <<survey, next_id, now, cache, resp, data, captcha_policy, answers, created_by>>

(* line 63 *)
submit_get(r) ==
    /\ reqs[r].pc = "get"
    /\ LET id == ObjectId(reqs[r].survey_id)
       IN  reqs' = IF FindSurvey(id) = {}
                   THEN Fail(r, "SurveyNotFoundException")
                   ELSE [reqs EXCEPT ![r].pc = "captcha", ![r].survey = Survey_get(id)]
    /\ UNCHANGED <<survey, next_id, now, cache, resp, data, captcha_policy, answers, created_by>>

(* lines 65-66: the token arrives with the request; the verifier decides it *)
submit_captcha(r, token) ==
    /\ reqs[r].pc = "captcha"
    /\ LET sv == reqs[r].survey
           err == CaptchaGate(sv, token)
           checked == [reqs EXCEPT ![r].captcha = IF sv.requires_captcha THEN token ELSE "unchecked"]
       IN  reqs' = IF err # ""
                   THEN [checked EXCEPT ![r].pc = "done", ![r].outcome = err]
                   ELSE [checked EXCEPT ![r].pc = "auth"]
    /\ UNCHANGED <<survey, next_id, now, cache, resp, data, captcha_policy, answers, created_by>>

(* lines 68-75 *)
submit_auth(r) ==
    /\ reqs[r].pc = "auth"
    /\ LET sv == reqs[r].survey
           id == ObjectId(reqs[r].survey_id)
           uid == SubmitterId(reqs[r].user)
           err == AuthGate(sv, reqs[r].user)
       IN  reqs' = IF err # ""
                   THEN Fail(r, err)
                   ELSE IF DuplicateGate(sv, id, uid) # ""
                   THEN Fail(r, DuplicateGate(sv, id, uid))
                   ELSE [reqs EXCEPT ![r].pc = "proxy", ![r].user_id = uid,
                                     ![r].seen = Stored(id, uid)]
    /\ UNCHANGED <<survey, next_id, now, cache, resp, data, captcha_policy, answers, created_by>>

(* lines 77-80 *)
submit_proxy(r, host_known, lookup) ==
    /\ reqs[r].pc = "proxy"
    /\ LET sv == reqs[r].survey
           geo == IF ProxyLookupRuns(sv, host_known) THEN lookup ELSE "skipped"
           looked == [reqs EXCEPT ![r].geo = geo]
       IN  reqs' = IF ProxyGate(sv, geo) # ""
                   THEN [looked EXCEPT ![r].pc = "done", ![r].outcome = ProxyGate(sv, geo)]
                   ELSE [looked EXCEPT ![r].pc = "persist"]
    /\ UNCHANGED <<survey, next_id, now, cache, resp, data, captcha_policy, answers, created_by>>

(* Survey(state, id_).submit_answers(data, user_id=user_id): the write, with the
   uniqueness constraint on (survey_id, user_id) enforced at write time *)
submit_answers_rejects(sv, sid, uid) ==
    /\ uid # NoUser
    /\ ~sv.allow_multiple_submissions
    /\ Stored(sid, uid) > 0

(* line 82 *)
submit_persist(r) ==
    /\ reqs[r].pc = "persist"
    /\ LET id == ObjectId(reqs[r].survey_id)
           uid == reqs[r].user_id
           at == [reqs EXCEPT ![r].prior = Stored(id, uid), ![r].pc = "done"]
       IN  IF submit_answers_rejects(reqs[r].survey, id, uid)
           THEN /\ reqs' = [at EXCEPT ![r].outcome = "DuplicateSubmissionError"]
                /\ UNCHANGED answers
           ELSE /\ reqs' = [at EXCEPT ![r].outcome = "Accepted", ![r].wrote = TRUE]
                /\ answers' = answers (+) SetToBag({AnswerKey(id, uid)})
    /\ UNCHANGED <<survey, next_id, now, cache, resp, data, captcha_policy, created_by>>

(* One stored survey, created by U1 with any policy flags, and no answers yet *)
InitSubmit ==
    /\ \E login, proxy, multi \in BOOLEAN :
         survey = {Merge(insert_doc(SurveyCreateModel(Payload(<<Q0, Q1>>, login, proxy, multi)),
                                    "U1", 0),
                         [_id |-> 1])}
    /\ next_id = 2
    /\ now = 0
    /\ cache = [s \in SurveyIdStrings |-> NoEntry]
    /\ resp = Idle
    /\ data = NoDoc
    /\ \E b \in BOOLEAN : captcha_policy = [i \in 1..MaxSurveys |-> b]
    /\ answers = EmptyBag
    /\ reqs = [r \in Requests |-> IdleReq]
    /\ created_by = <<"U1">>

NextSubmit ==
    \/ \E r \in Requests, u \in Callers, s \in SurveyIdStrings : submit_begin(r, u, s)
    \/ \E r \in Requests : submit_get(r)
    \/ \E r \in Requests, token \in CaptchaTokens : submit_captcha(r, token)
    \/ \E r \in Requests : submit_auth(r)
    \/ \E r \in Requests, host_known \in BOOLEAN, lookup \in GeoResults :
          submit_proxy(r, host_known, lookup)
    \/ \E r \in Requests : submit_persist(r)

SpecSubmit == InitSubmit /\ [][NextSubmit]_vars

----------------------------------------------------------------------------
(* Claims about validation, under SpecValidate *)

PairwiseDistinctIds(v) == \A i, j \in DOMAIN v : i # j => v[i].id # v[j].id

WellFormedIds(qs) ==
    /\ PairwiseDistinctIds(qs)
    /\ \A i \in DOMAIN qs : PairwiseDistinctIds(qs[i].choices)

(* C9: a body is accepted by create validation exactly when its question ids are
   pairwise distinct and, within each question, its choice ids are pairwise
   distinct; the accepted survey keeps those questions.  A duplicate question id
   or a duplicate choice id within one question is rejected; the same choice id
   in two different questions is accepted. *)
C9_DistinctIds ==
    resp.op = "validate" =>
        /\ resp.status = "ok" <=> WellFormedIds(data.questions)
        /\ resp.status = "ok" => /\ resp.body.questions = data.questions
                                 /\ WellFormedIds(resp.body.questions)
        /\ resp.status # "ok" => resp.status = "ValidationError"

(* an accepted body whose two questions both have a choice with the same id *)
C9_Witness ==
    /\ resp.op = "validate"
    /\ resp.status = "ok"
    /\ \E i, j \in DOMAIN resp.body.questions :
         /\ i # j
         /\ \E a \in DOMAIN resp.body.questions[i].choices,
               b \in DOMAIN resp.body.questions[j].choices :
              resp.body.questions[i].choices[a].id = resp.body.questions[j].choices[b].id

----------------------------------------------------------------------------
(* Claims about create_survey, list_surveys and public_survey, under Spec *)

(* C8: every stored survey carries the identity of the caller that created it,
   whatever the request body held, and list_surveys called by U returns exactly
   the surveys U created. *)
C8_Ownership ==
    /\ \A d \in survey : d.user_id = created_by[d["_id"]]
    /\ (resp.op = "create" /\ resp.status = "ok") => resp.body.user_id = resp.user
    /\ resp.op = "list" =>
         /\ {i["_id"] : i \in resp.items} =
                {id \in DOMAIN created_by : created_by[id] = resp.user}
         /\ \A i \in resp.items : i.user_id = resp.user

(* U1 lists its surveys while another identity's survey is stored, and the
   last body created named U2 as user_id while U1 was the caller *)
C8_Witness ==
    /\ resp.op = "list"
    /\ resp.user = "U1"
    /\ resp.items # {}
    /\ \E d \in survey : d.user_id = "U2"
    /\ "user_id" \in DOMAIN data
    /\ \E d \in survey : d["_id"] = Len(created_by) /\ d.user_id = "U1" /\ data.user_id = "U2"

PublicOnly(b) ==
    /\ "secret_key" \notin DOMAIN b
    /\ DOMAIN b.keypair = {"public_key"}
    /\ DOMAIN b.sign_keypair = {"public_key"}
    /\ b.sign_keypair.public_key = "sign_pk"
    /\ b.keypair.public_key = Envelope("pk")

(* C6: the public projection of every stored survey, every body public_survey
   returns and every cached body holds only the public-key fields of keypair
   and sign_keypair and no secret_key. *)
C6_NoPrivateKeys ==
    /\ \A d \in survey : PublicOnly(Survey_public(d["_id"]))
    /\ (resp.op = "public" /\ resp.status = "ok") => PublicOnly(resp.body)
    /\ \A s \in SurveyIdStrings : cache[s].set => PublicOnly(cache[s].body)

(* public_survey returned a survey whose stored document holds the private halves *)
C6_Witness ==
    /\ resp.op = "public"
    /\ resp.status = "ok"
    /\ \E d \in survey :
         /\ d["_id"] = ObjectId(resp.sid)
         /\ "secret_key" \in DOMAIN d
         /\ "private_key" \in DOMAIN d.keypair
         /\ "cipher_text" \in DOMAIN d.sign_keypair

(* C7: a public_survey request by a caller with no identity for a survey whose
   requires_login is true ends with InvalidAccountAuth. *)
C7_LoginRequired ==
    (/\ resp.op = "public"
     /\ resp.user = NoUser
     /\ \E d \in survey : d["_id"] = ObjectId(resp.sid) /\ d.requires_login)
        => resp.status = "InvalidAccountAuth"

----------------------------------------------------------------------------
(* Claims about submit_survey, under SpecSubmit *)

Done(r) == reqs[r].pc = "done"

(* the request found its survey *)
Loaded(r) == Done(r) /\ reqs[r].outcome # "SurveyNotFoundException"

CaptchaErrors == {"CaptchaRequiredError", "CaptchaInvalidError"}

(* the stored answer sets are exactly the writes of the requests marked wrote *)
StoreMatchesWrites ==
    \A sid \in {d["_id"] : d \in survey}, u \in Callers :
        Stored(sid, u) = Cardinality({q \in Requests : /\ reqs[q].wrote
                                                      /\ reqs[q].user_id = u
                                                      /\ ObjectId(reqs[q].survey_id) = sid})

(* the request passed the captcha and authentication gates *)
PastAuth(r) == Loaded(r) /\ reqs[r].outcome \notin (CaptchaErrors \cup {"InvalidAccountAuth"})

(* finished requests of identity u to survey d whose duplicate gate ran while
   no answer set of u was stored: the requests that race for the first write *)
Racing(d, u) ==
    {r \in Requests : /\ PastAuth(r)
                      /\ reqs[r].user = u
                      /\ ObjectId(reqs[r].survey_id) = d["_id"]
                      /\ reqs[r].seen = 0}

(* C1: when two (or more) requests of one identity to a survey with
   allow_multiple_submissions = false pass their gates before any answer set of
   that identity is stored, exactly one ends Accepted, every other ends with
   DuplicateSubmissionError, and one answer set is stored for the identity. *)
C1_ExactlyOneAccepted ==
    \A d \in survey, u \in Users :
        (~d.allow_multiple_submissions /\ Cardinality(Racing(d, u)) >= 2) =>
            /\ Cardinality({r \in Racing(d, u) : reqs[r].outcome = "Accepted"}) = 1
            /\ \A r \in Racing(d, u) :
                 reqs[r].outcome \in {"Accepted", "DuplicateSubmissionError"}
            /\ Stored(d["_id"], u) = 1

(* two requests of U1 raced: both passed the gates with nothing stored, one was
   accepted and the other rejected as a duplicate *)
C1_Witness ==
    \E d \in survey, r1, r2 \in Requests :
        /\ r1 # r2
        /\ ~d.allow_multiple_submissions
        /\ {r1, r2} \subseteq Racing(d, "U1")
        /\ reqs[r1].outcome = "Accepted"
        /\ reqs[r2].outcome = "DuplicateSubmissionError"

(* C2: for a survey with allow_multiple_submissions = false at most one answer
   set is stored per identity; the submission of an identity that reaches the
   write first is Accepted, and every submission that reaches it later ends
   with DuplicateSubmissionError and stores nothing. *)
C2_AtMostOnePerIdentity ==
    \A d \in survey, u \in Users :
        ~d.allow_multiple_submissions =>
            LET mine == {r \in Requests : /\ PastAuth(r)
                                          /\ reqs[r].user = u
                                          /\ ObjectId(reqs[r].survey_id) = d["_id"]}
            IN  /\ Stored(d["_id"], u) <= 1
                /\ Stored(d["_id"], u) = Cardinality({r \in mine : reqs[r].wrote})
                /\ \A r \in mine :
                     /\ reqs[r].prior = 0 =>
                          reqs[r].outcome = "Accepted" /\ reqs[r].wrote
                     /\ (reqs[r].prior > 0 \/ reqs[r].seen > 0) =>
                          reqs[r].outcome = "DuplicateSubmissionError" /\ ~reqs[r].wrote

(* U1 submitted again after its first answer set was stored and was rejected *)
C2_Witness ==
    \E d \in survey, r1, r2 \in Requests :
        /\ ~d.allow_multiple_submissions
        /\ Done(r1) /\ reqs[r1].user = "U1" /\ reqs[r1].outcome = "Accepted"
        /\ Done(r2) /\ reqs[r2].user = "U1" /\ reqs[r2].seen = 1
        /\ reqs[r2].outcome = "DuplicateSubmissionError"
        /\ Stored(d["_id"], "U1") = 1

(* C3 as stated: a request with no identity to a survey that requires login
   ends with InvalidAccountAuth whatever the captcha and proxy outcomes, and
   nothing is stored. *)
C3_AuthRequiredRegardless ==
    \A r \in Requests :
        (Loaded(r) /\ reqs[r].user = NoUser /\ reqs[r].survey.requires_login) =>
            reqs[r].outcome = "InvalidAccountAuth" /\ ~reqs[r].wrote

(* C3 amended: such a request stores nothing and runs no reputation lookup; it
   ends with InvalidAccountAuth when the captcha gate passes (no captcha is
   required, or the token is accepted), and with the captcha gate's error when
   a captcha is required and the token is missing or rejected. *)
C3_AuthRequiredAfterCaptcha ==
    \A r \in Requests :
        (Loaded(r) /\ reqs[r].user = NoUser /\ reqs[r].survey.requires_login) =>
            /\ ~reqs[r].wrote
            /\ reqs[r].geo = "skipped"
            /\ StoreMatchesWrites
            /\ reqs[r].captcha \in {"unchecked", "valid"} =>
                   reqs[r].outcome = "InvalidAccountAuth"
            /\ reqs[r].captcha \in {"missing", "invalid"} =>
                   reqs[r].outcome = validate_captcha(reqs[r].captcha)

(* an anonymous request whose captcha token was accepted is refused by a
   survey that requires login *)
C3_Witness ==
    \E r \in Requests :
        /\ Loaded(r)
        /\ reqs[r].user = NoUser
        /\ reqs[r].survey.requires_login
        /\ reqs[r].survey.requires_captcha
        /\ reqs[r].captcha = "valid"
        /\ reqs[r].outcome = "InvalidAccountAuth"

(* C4: a request to a survey that requires a captcha whose token the verifier
   rejects ends with CaptchaInvalidError and stores nothing, also when every
   other gate would pass. *)
C4_CaptchaInvalid ==
    \A r \in Requests :
        (Loaded(r) /\ reqs[r].survey.requires_captcha) =>
            /\ reqs[r].captcha # "unchecked"
            /\ reqs[r].captcha = "invalid" =>
                 /\ reqs[r].outcome = "CaptchaInvalidError"
                 /\ ~reqs[r].wrote
                 /\ reqs[r].geo = "skipped"
                 /\ StoreMatchesWrites

(* an authenticated request that every other gate would pass is refused for
   its rejected token, and nothing is stored *)
C4_Witness ==
    \E r \in Requests :
        /\ Loaded(r)
        /\ reqs[r].survey.requires_captcha
        /\ ~reqs[r].survey.requires_login
        /\ ~reqs[r].survey.proxy_block
        /\ reqs[r].user = "U1"
        /\ reqs[r].captcha = "invalid"
        /\ reqs[r].outcome = "CaptchaInvalidError"
        /\ answers = EmptyBag

(* C5: a request to a survey with proxy_block = true whose client host is known
   and whose reputation lookup reports a proxy ends with ProxyBlockedError and
   stores nothing. *)
C5_ProxyBlocked ==
    \A r \in Requests :
        (Loaded(r) /\ reqs[r].survey.proxy_block /\ reqs[r].geo = "yes") =>
            reqs[r].outcome = "ProxyBlockedError" /\ ~reqs[r].wrote

(* the rejection the gate order captcha, authentication, proxy,
   duplicate-submission, persist gives a finished request *)
FirstFailure(r) ==
    LET q == reqs[r]
    IN  IF q.captcha \in {"missing", "invalid"} THEN validate_captcha(q.captcha)
        ELSE IF q.user = NoUser /\ q.survey.requires_login THEN "InvalidAccountAuth"
        ELSE IF q.geo = "yes" THEN "ProxyBlockedError"
        ELSE IF q.user_id # NoUser /\ ~q.survey.allow_multiple_submissions /\ q.prior > 0
             THEN "DuplicateSubmissionError"
        ELSE "Accepted"

(* C10: the outcome of a request is that of the first gate that fails in the
   order captcha, authentication, proxy, duplicate-submission, persist, and a
   failed gate is followed by no lookup and no write. *)
C10_GateOrder ==
    \A r \in Requests :
        Loaded(r) =>
            /\ reqs[r].outcome = FirstFailure(r)
            /\ reqs[r].outcome \in (CaptchaErrors \cup {"InvalidAccountAuth"}) =>
                 reqs[r].geo = "skipped"
            /\ reqs[r].wrote <=> reqs[r].outcome = "Accepted"

====
